---- MODULE Spec2Model ----
(***************************************************************************)
(* Sign-and-magnitude arithmetic of SignedDecimal (signed_decimal.rs) and  *)
(* SignedInt (signed_int.rs).                                              *)
(*                                                                         *)
(* A value is a record [value, is_positive].  For SignedInt `value` is the *)
(* Uint256 magnitude; for SignedDecimal it is the Decimal256 magnitude,    *)
(* held as its atomics (the integer count of 10^-DECIMAL_PLACES units).    *)
(* Strings are sequences of one-character strings.                         *)
(*                                                                         *)
(* The magnitude types are width-limited: a magnitude above UINT_MAX does  *)
(* not exist, the checked arithmetic of Uint256 / Decimal256 panics        *)
(* instead.  The operators below compute the magnitude the code asks for;  *)
(* the actions turn a magnitude above UINT_MAX into the panic.             *)
(***************************************************************************)
EXTENDS Integers, Sequences, FiniteSets, TLC

\* Largest magnitude the unsigned type holds (stands for 2^256 - 1).
UINT_MAX == 15

\* Fractional digits of the fixed-point magnitude (stands for 18).
DECIMAL_PLACES == 1

\* Longest string handed to from_str.
MaxLen == 4

\* Longest string handed to from_str by a program that goes on to compute.
MaxShortLen == 2

\* Characters the strings handed to from_str are made of.
InChars == {"-", ".", "0", "1", "5"}

VARIABLES
    ty,       \* type of the current value: "dec" (SignedDecimal) or "int" (SignedInt)
    x,        \* the current value, result of the last value-producing operation
    op,       \* the last operation
    left,     \* its left operand (self)
    right,    \* its right operand
    status,   \* "ok", "err" (an Err(..) was returned) or "panic" (the thread panicked)
    s,        \* the string x was parsed from, NoStr when x is not a from_str result
    text,     \* result of to_string, when it is the last operation
    cmp,      \* result of the comparison [eq, ord], when it is the last operation
    conv      \* result of try_into [ok, value], when it is the last operation

vars == <<ty, x, op, left, right, status, s, text, cmp, conv>>

-----------------------------------------------------------------------------
(* Helpers over digits and strings *)

Digits == <<"0", "1", "2", "3", "4", "5", "6", "7", "8", "9">>

IsDigit(c) == \E i \in 1..10 : Digits[i] = c

DigitVal(c) == (CHOOSE i \in 1..10 : Digits[i] = c) - 1

RECURSIVE Pow10(_)
Pow10(n) == IF n = 0 THEN 1 ELSE 10 * Pow10(n - 1)

\* Decimal256::DECIMAL_FRACTIONAL: atomics in one unit.
DECIMAL_FRACTIONAL == Pow10(DECIMAL_PLACES)

\* The number a run of decimal digits stands for.
RECURSIVE DigitsValue(_)
DigitsValue(str) ==
    IF str = <<>> THEN 0
    ELSE 10 * DigitsValue(SubSeq(str, 1, Len(str) - 1)) + DigitVal(str[Len(str)])

\* Uint256::to_string: decimal digits, no leading zeros.
RECURSIVE Uint256_to_string(_)
Uint256_to_string(n) ==
    IF n < 10 THEN <<Digits[n + 1]>>
    ELSE Uint256_to_string(n \div 10) \o <<Digits[(n % 10) + 1]>>

\* Uint256::from_str: a non-empty run of decimal digits that fits the width.
Uint256_from_str(str) ==
    IF str = <<>> \/ (\E i \in 1..Len(str) : ~IsDigit(str[i]))
    THEN [ok |-> FALSE, value |-> 0]
    ELSE IF DigitsValue(str) > UINT_MAX
         THEN [ok |-> FALSE, value |-> 0]
         ELSE [ok |-> TRUE, value |-> DigitsValue(str)]

\* str.split('.'): the pieces between the dots (always at least one piece).
RECURSIVE SplitDot(_)
SplitDot(str) ==
    IF \A i \in 1..Len(str) : str[i] # "."
    THEN <<str>>
    ELSE LET k == CHOOSE i \in 1..Len(str) :
                      str[i] = "." /\ \A j \in 1..(i - 1) : str[j] # "."
         IN  <<SubSeq(str, 1, k - 1)>> \o SplitDot(SubSeq(str, k + 1, Len(str)))

\* Decimal256::from_str: whole[.fractional], at most DECIMAL_PLACES fractional digits.
Decimal256_from_str(str) ==
    LET parts == SplitDot(str)
        whole == Uint256_from_str(parts[1])
        bad   == [ok |-> FALSE, value |-> 0]
    IN  IF ~whole.ok THEN bad
        ELSE IF whole.value * DECIMAL_FRACTIONAL > UINT_MAX THEN bad
        ELSE IF Len(parts) = 1
             THEN [ok |-> TRUE, value |-> whole.value * DECIMAL_FRACTIONAL]
        ELSE LET frac == Uint256_from_str(parts[2])
             IN  IF ~frac.ok THEN bad
                 ELSE IF Len(parts[2]) > DECIMAL_PLACES THEN bad
                 ELSE LET atomics == whole.value * DECIMAL_FRACTIONAL
                                     + frac.value * Pow10(DECIMAL_PLACES - Len(parts[2]))
                      IN  IF atomics > UINT_MAX THEN bad
                          ELSE IF Len(parts) > 2 THEN bad
                          ELSE [ok |-> TRUE, value |-> atomics]

\* format!("{:0>padding$}", fractional): left-pad with zeros to DECIMAL_PLACES.
RECURSIVE PadZeros(_)
PadZeros(str) == IF Len(str) >= DECIMAL_PLACES THEN str ELSE PadZeros(<<"0">> \o str)

\* trim_end_matches('0')
RECURSIVE TrimEndZeros(_)
TrimEndZeros(str) ==
    IF str # <<>> /\ str[Len(str)] = "0"
    THEN TrimEndZeros(SubSeq(str, 1, Len(str) - 1))
    ELSE str

\* Decimal256::to_string: the whole part, then '.' and the fractional digits
\* without trailing zeros when the fractional part is not zero.
Decimal256_to_string(atomics) ==
    LET whole      == atomics \div DECIMAL_FRACTIONAL
        fractional == atomics % DECIMAL_FRACTIONAL
    IN  IF fractional = 0 THEN Uint256_to_string(whole)
        ELSE Uint256_to_string(whole) \o <<".">>
             \o TrimEndZeros(PadZeros(Uint256_to_string(fractional)))

\* Decimal256 * Decimal256: the product of the atomics, rescaled, truncating.
Decimal256_mul(a, b) == (a * b) \div DECIMAL_FRACTIONAL

\* Decimal256 / Decimal256 (b # 0): the ratio of the atomics, rescaled, truncating.
Decimal256_div(a, b) == (a * DECIMAL_FRACTIONAL) \div b

\* Decimal256 * Uint256 and Uint256 * Decimal256, both a Uint256: the integer
\* times the atomics d, rescaled, truncating.
Uint256_mul_Decimal256(u, d) == (u * d) \div DECIMAL_FRACTIONAL

-----------------------------------------------------------------------------
(* SignedDecimal (signed_decimal.rs) *)

SignedDecimal_zero == [value |-> 0, is_positive |-> TRUE]

SignedDecimal_is_zero(self) == self.value = 0

SignedDecimal_from(value) == [value |-> value, is_positive |-> TRUE]

\* A negation that flips the flag of zero too.
SignedDecimal_neg_flipzero(self) ==
    [value |-> self.value, is_positive |-> ~self.is_positive]

SignedDecimal_neg(self) ==
    IF SignedDecimal_is_zero(self) THEN self
    ELSE [value |-> self.value, is_positive |-> ~self.is_positive]

\* An addition that keeps self's sign whenever the signs differ.
SignedDecimal_add_selfsign(self, rhs) ==
    IF self.is_positive = rhs.is_positive
    THEN [value |-> self.value + rhs.value, is_positive |-> self.is_positive]
    ELSE IF self.value > rhs.value
    THEN [value |-> self.value - rhs.value, is_positive |-> self.is_positive]
    ELSE IF self.value < rhs.value
    THEN [value |-> rhs.value - self.value, is_positive |-> self.is_positive]
    ELSE [value |-> 0, is_positive |-> TRUE]

SignedDecimal_add(self, rhs) ==
    IF self.is_positive = rhs.is_positive
    THEN [value |-> self.value + rhs.value, is_positive |-> self.is_positive]
    ELSE IF self.value > rhs.value
    THEN [value |-> self.value - rhs.value, is_positive |-> self.is_positive]
    ELSE IF self.value < rhs.value
    THEN [value |-> rhs.value - self.value, is_positive |-> rhs.is_positive]
    ELSE [value |-> 0, is_positive |-> TRUE]

SignedDecimal_sub(self, rhs) ==
    SignedDecimal_add(self, [value |-> rhs.value, is_positive |-> ~rhs.is_positive])

\* A multiplication whose sign is the plain XOR rule, zero product included.
SignedDecimal_mul_xor(self, rhs) ==
    LET value == Decimal256_mul(self.value, rhs.value)
    IN  [value |-> value, is_positive |-> self.is_positive = rhs.is_positive]

SignedDecimal_mul(self, rhs) ==
    LET value == Decimal256_mul(self.value, rhs.value)
    IN  [value |-> value,
         is_positive |-> (self.is_positive = rhs.is_positive) \/ value = 0]

\* A division whose sign is the plain XOR rule, zero quotient included.
SignedDecimal_div_xor(self, rhs) ==
    LET value == IF rhs.value = 0 THEN 0 ELSE Decimal256_div(self.value, rhs.value)
    IN  [value |-> value, is_positive |-> self.is_positive = rhs.is_positive]

SignedDecimal_div(self, rhs) ==
    LET value == IF rhs.value = 0 THEN 0 ELSE Decimal256_div(self.value, rhs.value)
    IN  [value |-> value,
         is_positive |-> (self.is_positive = rhs.is_positive) \/ value = 0]

SignedDecimal_eq(self, other) ==
    IF SignedDecimal_is_zero(self) THEN SignedDecimal_is_zero(other)
    ELSE self.value = other.value /\ self.is_positive = other.is_positive

\* Decimal256::partial_cmp / Uint256::partial_cmp: the order of the magnitudes.
Magnitude_partial_cmp(a, b) ==
    IF a < b THEN "Less" ELSE IF a = b THEN "Equal" ELSE "Greater"

SignedDecimal_partial_cmp(self, other) ==
    IF self.is_positive = other.is_positive
    THEN IF self.is_positive
         THEN Magnitude_partial_cmp(self.value, other.value)
         ELSE Magnitude_partial_cmp(other.value, self.value)
    ELSE IF self.is_positive THEN "Greater" ELSE "Less"

\* A narrowing that rejects every value whose flag is negative.
SignedDecimal_try_into_strict(self) ==
    IF ~self.is_positive
    THEN [ok |-> FALSE, value |-> 0]
    ELSE [ok |-> TRUE, value |-> self.value]

\* TryInto<Decimal256>: ok = FALSE is Err(CommonError::Generic(..)).
SignedDecimal_try_into(self) ==
    IF ~self.is_positive /\ self.value # 0
    THEN [ok |-> FALSE, value |-> 0]
    ELSE [ok |-> TRUE, value |-> self.value]

SignedDecimal_to_string(self) ==
    IF SignedDecimal_is_zero(self) THEN <<"0", ".", "0">>
    ELSE (IF self.is_positive THEN <<>> ELSE <<"-">>)
         \o Decimal256_to_string(self.value)

\* from_str: kind is "ok" (Ok(value)), "err" (Err(..)) or "panic".
SignedDecimal_from_str(str) ==
    IF str = <<>>
    THEN [kind |-> "panic", value |-> 0, is_positive |-> TRUE]
    ELSE LET sign    == str[1] # "-"
             val_str == IF str[1] = "-" THEN Tail(str) ELSE str
             parsed  == Decimal256_from_str(val_str)
         IN  IF parsed.ok
             THEN [kind |-> "ok", value |-> parsed.value, is_positive |-> sign]
             ELSE [kind |-> "err", value |-> 0, is_positive |-> TRUE]

\* impl Mul<SignedDecimal> for Uint256: the result is a SignedInt.
Uint256_mul_SignedDecimal(self, rhs) ==
    [value |-> Uint256_mul_Decimal256(self, rhs.value),
     is_positive |-> rhs.is_positive]

\* impl Mul<Decimal256> for SignedDecimal: self.value *= rhs.
SignedDecimal_mul_Decimal256(self, rhs) ==
    [value |-> Decimal256_mul(self.value, rhs), is_positive |-> self.is_positive]

\* A remainder that keeps the flag of self.
SignedDecimal_rem_keepsign(self, rhs) ==
    [value |-> self.value % rhs.value, is_positive |-> self.is_positive]

\* impl Rem for SignedDecimal (rhs.value # 0): the remainder of the atomics,
\* through From<Decimal256>.
SignedDecimal_rem(self, rhs) ==
    SignedDecimal_from(self.value % rhs.value)

-----------------------------------------------------------------------------
(* SignedInt (signed_int.rs) *)

SignedInt_zero == [value |-> 0, is_positive |-> TRUE]

SignedInt_nan == [value |-> 0, is_positive |-> FALSE]

SignedInt_is_nan(self) == self.value = 0 /\ ~self.is_positive

SignedInt_is_zero(self) == self.value = 0

SignedInt_from(value) == [value |-> value, is_positive |-> TRUE]

SignedInt_neg(self) ==
    IF SignedInt_is_zero(self) THEN self
    ELSE [value |-> self.value, is_positive |-> ~self.is_positive]

SignedInt_add(self, rhs) ==
    IF self.is_positive = rhs.is_positive
    THEN [value |-> self.value + rhs.value, is_positive |-> self.is_positive]
    ELSE IF self.value > rhs.value
    THEN [value |-> self.value - rhs.value, is_positive |-> self.is_positive]
    ELSE IF self.value < rhs.value
    THEN [value |-> rhs.value - self.value, is_positive |-> rhs.is_positive]
    ELSE [value |-> 0, is_positive |-> TRUE]

SignedInt_sub(self, rhs) ==
    SignedInt_add(self, [value |-> rhs.value, is_positive |-> ~rhs.is_positive])

\* A multiplication whose sign is the plain XOR rule, zero product included.
SignedInt_mul_xor(self, rhs) ==
    LET value == self.value * rhs.value
    IN  [value |-> value, is_positive |-> self.is_positive = rhs.is_positive]

SignedInt_mul(self, rhs) ==
    LET value == self.value * rhs.value
    IN  [value |-> value,
         is_positive |-> (self.is_positive = rhs.is_positive) \/ value = 0]

\* impl Mul<Decimal256> for SignedInt
SignedInt_mul_Decimal256(self, rhs) ==
    LET value == Uint256_mul_Decimal256(self.value, rhs)
    IN  [value |-> value, is_positive |-> self.is_positive \/ value = 0]

SignedInt_div(self, rhs) ==
    LET value == IF rhs.value = 0 THEN rhs.value ELSE self.value \div rhs.value
    IN  [value |-> value,
         is_positive |-> (self.is_positive = rhs.is_positive) \/ value = 0]

SignedInt_eq(self, other) ==
    self.value = other.value /\ self.is_positive = other.is_positive

SignedInt_partial_cmp(self, other) ==
    IF self.is_positive = other.is_positive
    THEN IF self.is_positive
         THEN Magnitude_partial_cmp(self.value, other.value)
         ELSE Magnitude_partial_cmp(other.value, self.value)
    ELSE IF self.is_positive THEN "Greater" ELSE "Less"

\* TryInto<Uint256>: ok = FALSE is Err(CommonError::Generic(..)).
SignedInt_try_into(self) ==
    IF ~self.is_positive /\ self.value # 0
    THEN [ok |-> FALSE, value |-> 0]
    ELSE [ok |-> TRUE, value |-> self.value]

SignedInt_to_string(self) ==
    IF SignedInt_is_nan(self) THEN <<"N", "a", "N">>
    ELSE (IF self.is_positive THEN <<>> ELSE <<"-">>)
         \o Uint256_to_string(self.value)

SignedInt_from_str(str) ==
    IF str = <<>>
    THEN [kind |-> "panic", value |-> 0, is_positive |-> TRUE]
    ELSE LET sign    == str[1] # "-"
             val_str == IF str[1] = "-" THEN Tail(str) ELSE str
             parsed  == Uint256_from_str(val_str)
         IN  IF parsed.ok
             THEN [kind |-> "ok", value |-> parsed.value, is_positive |-> sign]
             ELSE [kind |-> "err", value |-> 0, is_positive |-> TRUE]

-----------------------------------------------------------------------------
(* The state machine: a program that holds one value and applies the       *)
(* operations of its type to it, the other operand being any value the     *)
(* type can hold.  An Err(..) or a panic ends the run: the operations are  *)
(* pure, so a caller that goes on after an Err is in the state it was in   *)
(* before the call.                                                        *)

\* Every [value, is_positive] pair a SignedDecimal / SignedInt can hold.  A
\* zero magnitude with is_positive = FALSE is held by SignedInt::nan() and by
\* the result of from_str("-0") of either type.
Values == [value : 0..UINT_MAX, is_positive : BOOLEAN]

\* The values that satisfy magnitude = 0 => is_positive.
CanonicalValues == {v \in Values : v.value = 0 => v.is_positive}

\* The strings handed to from_str.
Strings == UNION {[1..n -> InChars] : n \in 0..MaxLen}

\* The short ones among them.
ShortStrings == UNION {[1..n -> InChars] : n \in 0..MaxShortLen}

NoStr == <<"?">>

NoOperand == [value |-> 0 - 1, is_positive |-> TRUE]

NoCmp == [eq |-> FALSE, ord |-> "None"]

NoConv == [ok |-> FALSE, value |-> 0]

Init ==
    /\ ty \in {"dec", "int"}
    /\ x = IF ty = "dec" THEN SignedDecimal_zero ELSE SignedInt_zero
    /\ op = "init"
    /\ left = NoOperand
    /\ right = NoOperand
    /\ status = "ok"
    /\ s = NoStr
    /\ text = <<>>
    /\ cmp = NoCmp
    /\ conv = NoConv

\* SignedDecimal::from(magnitude)
Call_SignedDecimal_from(m) ==
    /\ status = "ok" /\ ty = "dec"
    /\ op' = "from" /\ left' = NoOperand /\ right' = NoOperand
    /\ x' = SignedDecimal_from(m)
    /\ status' = "ok" /\ s' = NoStr
    /\ text' = <<>> /\ cmp' = NoCmp /\ conv' = NoConv
    /\ UNCHANGED ty

\* -self
Call_SignedDecimal_neg ==
    /\ status = "ok" /\ ty = "dec"
    /\ op' = "neg" /\ left' = x /\ right' = NoOperand
    /\ x' = SignedDecimal_neg(x)
    /\ status' = "ok" /\ s' = NoStr
    /\ text' = <<>> /\ cmp' = NoCmp /\ conv' = NoConv
    /\ UNCHANGED ty

\* self + rhs; the checked magnitude arithmetic panics above UINT_MAX
Call_SignedDecimal_add(r) ==
    /\ status = "ok" /\ ty = "dec"
    /\ op' = "add" /\ left' = x /\ right' = r
    /\ LET res == SignedDecimal_add(x, r)
       IN  IF res.value > UINT_MAX
           THEN status' = "panic" /\ x' = x
           ELSE status' = "ok" /\ x' = res
    /\ s' = NoStr
    /\ text' = <<>> /\ cmp' = NoCmp /\ conv' = NoConv
    /\ UNCHANGED ty

\* self - rhs; the checked magnitude arithmetic panics above UINT_MAX
Call_SignedDecimal_sub(r) ==
    /\ status = "ok" /\ ty = "dec"
    /\ op' = "sub" /\ left' = x /\ right' = r
    /\ LET res == SignedDecimal_sub(x, r)
       IN  IF res.value > UINT_MAX
           THEN status' = "panic" /\ x' = x
           ELSE status' = "ok" /\ x' = res
    /\ s' = NoStr
    /\ text' = <<>> /\ cmp' = NoCmp /\ conv' = NoConv
    /\ UNCHANGED ty

\* self * rhs; the checked magnitude arithmetic panics above UINT_MAX
Call_SignedDecimal_mul(r) ==
    /\ status = "ok" /\ ty = "dec"
    /\ op' = "mul" /\ left' = x /\ right' = r
    /\ LET res == SignedDecimal_mul(x, r)
       IN  IF res.value > UINT_MAX
           THEN status' = "panic" /\ x' = x
           ELSE status' = "ok" /\ x' = res
    /\ s' = NoStr
    /\ text' = <<>> /\ cmp' = NoCmp /\ conv' = NoConv
    /\ UNCHANGED ty

\* self / rhs; the checked magnitude arithmetic panics above UINT_MAX
Call_SignedDecimal_div(r) ==
    /\ status = "ok" /\ ty = "dec"
    /\ op' = "div" /\ left' = x /\ right' = r
    /\ LET res == SignedDecimal_div(x, r)
       IN  IF res.value > UINT_MAX
           THEN status' = "panic" /\ x' = x
           ELSE status' = "ok" /\ x' = res
    /\ s' = NoStr
    /\ text' = <<>> /\ cmp' = NoCmp /\ conv' = NoConv
    /\ UNCHANGED ty

\* self == other, and self.partial_cmp(other)
Call_SignedDecimal_cmp(r) ==
    /\ status = "ok" /\ ty = "dec"
    /\ op' = "cmp" /\ left' = x /\ right' = r
    /\ cmp' = [eq |-> SignedDecimal_eq(x, r), ord |-> SignedDecimal_partial_cmp(x, r)]
    /\ s' = NoStr /\ text' = <<>> /\ conv' = NoConv
    /\ UNCHANGED <<ty, x, status>>

\* self.try_into()
Call_SignedDecimal_try_into ==
    /\ status = "ok" /\ ty = "dec"
    /\ op' = "try_into" /\ left' = x /\ right' = NoOperand
    /\ conv' = SignedDecimal_try_into(x)
    /\ s' = NoStr /\ text' = <<>> /\ cmp' = NoCmp
    /\ UNCHANGED <<ty, x, status>>

\* self.to_string()
Call_SignedDecimal_to_string ==
    /\ status = "ok" /\ ty = "dec"
    /\ op' = "to_string" /\ left' = x /\ right' = NoOperand
    /\ text' = SignedDecimal_to_string(x)
    /\ cmp' = NoCmp /\ conv' = NoConv
    /\ UNCHANGED <<ty, x, status, s>>

\* SignedDecimal::from_str(str)
Call_SignedDecimal_from_str(str) ==
    /\ status = "ok" /\ ty = "dec"
    /\ op' = "from_str" /\ left' = NoOperand /\ right' = NoOperand
    /\ s' = str
    /\ LET res == SignedDecimal_from_str(str)
       IN  /\ status' = res.kind
           /\ x' = IF res.kind = "ok"
                   THEN [value |-> res.value, is_positive |-> res.is_positive]
                   ELSE x
    /\ text' = <<>> /\ cmp' = NoCmp /\ conv' = NoConv
    /\ UNCHANGED ty

\* SignedInt::from(magnitude)
Call_SignedInt_from(m) ==
    /\ status = "ok" /\ ty = "int"
    /\ op' = "from" /\ left' = NoOperand /\ right' = NoOperand
    /\ x' = SignedInt_from(m)
    /\ status' = "ok" /\ s' = NoStr
    /\ text' = <<>> /\ cmp' = NoCmp /\ conv' = NoConv
    /\ UNCHANGED ty

\* -self
Call_SignedInt_neg ==
    /\ status = "ok" /\ ty = "int"
    /\ op' = "neg" /\ left' = x /\ right' = NoOperand
    /\ x' = SignedInt_neg(x)
    /\ status' = "ok" /\ s' = NoStr
    /\ text' = <<>> /\ cmp' = NoCmp /\ conv' = NoConv
    /\ UNCHANGED ty

\* self + rhs; the checked magnitude arithmetic panics above UINT_MAX
Call_SignedInt_add(r) ==
    /\ status = "ok" /\ ty = "int"
    /\ op' = "add" /\ left' = x /\ right' = r
    /\ LET res == SignedInt_add(x, r)
       IN  IF res.value > UINT_MAX
           THEN status' = "panic" /\ x' = x
           ELSE status' = "ok" /\ x' = res
    /\ s' = NoStr
    /\ text' = <<>> /\ cmp' = NoCmp /\ conv' = NoConv
    /\ UNCHANGED ty

\* self - rhs; the checked magnitude arithmetic panics above UINT_MAX
Call_SignedInt_sub(r) ==
    /\ status = "ok" /\ ty = "int"
    /\ op' = "sub" /\ left' = x /\ right' = r
    /\ LET res == SignedInt_sub(x, r)
       IN  IF res.value > UINT_MAX
           THEN status' = "panic" /\ x' = x
           ELSE status' = "ok" /\ x' = res
    /\ s' = NoStr
    /\ text' = <<>> /\ cmp' = NoCmp /\ conv' = NoConv
    /\ UNCHANGED ty

\* self * rhs; the checked magnitude arithmetic panics above UINT_MAX
Call_SignedInt_mul(r) ==
    /\ status = "ok" /\ ty = "int"
    /\ op' = "mul" /\ left' = x /\ right' = r
    /\ LET res == SignedInt_mul(x, r)
       IN  IF res.value > UINT_MAX
           THEN status' = "panic" /\ x' = x
           ELSE status' = "ok" /\ x' = res
    /\ s' = NoStr
    /\ text' = <<>> /\ cmp' = NoCmp /\ conv' = NoConv
    /\ UNCHANGED ty

\* self / rhs; the checked magnitude arithmetic panics above UINT_MAX
Call_SignedInt_div(r) ==
    /\ status = "ok" /\ ty = "int"
    /\ op' = "div" /\ left' = x /\ right' = r
    /\ LET res == SignedInt_div(x, r)
       IN  IF res.value > UINT_MAX
           THEN status' = "panic" /\ x' = x
           ELSE status' = "ok" /\ x' = res
    /\ s' = NoStr
    /\ text' = <<>> /\ cmp' = NoCmp /\ conv' = NoConv
    /\ UNCHANGED ty

\* self == other, and self.partial_cmp(other)
Call_SignedInt_cmp(r) ==
    /\ status = "ok" /\ ty = "int"
    /\ op' = "cmp" /\ left' = x /\ right' = r
    /\ cmp' = [eq |-> SignedInt_eq(x, r), ord |-> SignedInt_partial_cmp(x, r)]
    /\ s' = NoStr /\ text' = <<>> /\ conv' = NoConv
    /\ UNCHANGED <<ty, x, status>>

\* self.try_into()
Call_SignedInt_try_into ==
    /\ status = "ok" /\ ty = "int"
    /\ op' = "try_into" /\ left' = x /\ right' = NoOperand
    /\ conv' = SignedInt_try_into(x)
    /\ s' = NoStr /\ text' = <<>> /\ cmp' = NoCmp
    /\ UNCHANGED <<ty, x, status>>

\* self.to_string()
Call_SignedInt_to_string ==
    /\ status = "ok" /\ ty = "int"
    /\ op' = "to_string" /\ left' = x /\ right' = NoOperand
    /\ text' = SignedInt_to_string(x)
    /\ cmp' = NoCmp /\ conv' = NoConv
    /\ UNCHANGED <<ty, x, status, s>>

\* SignedInt::from_str(str)
Call_SignedInt_from_str(str) ==
    /\ status = "ok" /\ ty = "int"
    /\ op' = "from_str" /\ left' = NoOperand /\ right' = NoOperand
    /\ s' = str
    /\ LET res == SignedInt_from_str(str)
       IN  /\ status' = res.kind
           /\ x' = IF res.kind = "ok"
                   THEN [value |-> res.value, is_positive |-> res.is_positive]
                   ELSE x
    /\ text' = <<>> /\ cmp' = NoCmp /\ conv' = NoConv
    /\ UNCHANGED ty

\* u * x for a Uint256 u: the SignedDecimal becomes a SignedInt.  The unsigned
\* operand is recorded with is_positive = TRUE.
Call_Uint256_mul_SignedDecimal(u) ==
    /\ status = "ok" /\ ty = "dec"
    /\ op' = "uint_mul_dec" /\ left' = [value |-> u, is_positive |-> TRUE] /\ right' = x
    /\ LET res == Uint256_mul_SignedDecimal(u, x)
       IN  IF res.value > UINT_MAX
           THEN status' = "panic" /\ x' = x /\ ty' = ty
           ELSE status' = "ok" /\ x' = res /\ ty' = "int"
    /\ s' = NoStr
    /\ text' = <<>> /\ cmp' = NoCmp /\ conv' = NoConv

\* x * d for a Decimal256 d (its atomics), x a SignedDecimal
Call_SignedDecimal_mul_Decimal256(d) ==
    /\ status = "ok" /\ ty = "dec"
    /\ op' = "dec_mul_dec256" /\ left' = x /\ right' = [value |-> d, is_positive |-> TRUE]
    /\ LET res == SignedDecimal_mul_Decimal256(x, d)
       IN  IF res.value > UINT_MAX
           THEN status' = "panic" /\ x' = x
           ELSE status' = "ok" /\ x' = res
    /\ s' = NoStr
    /\ text' = <<>> /\ cmp' = NoCmp /\ conv' = NoConv
    /\ UNCHANGED ty

\* x % r; the remainder of the atomics panics on a zero divisor
Call_SignedDecimal_rem(r) ==
    /\ status = "ok" /\ ty = "dec"
    /\ op' = "rem" /\ left' = x /\ right' = r
    /\ IF r.value = 0
       THEN status' = "panic" /\ x' = x
       ELSE status' = "ok" /\ x' = SignedDecimal_rem(x, r)
    /\ s' = NoStr
    /\ text' = <<>> /\ cmp' = NoCmp /\ conv' = NoConv
    /\ UNCHANGED ty

\* x * d for a Decimal256 d (its atomics), x a SignedInt
Call_SignedInt_mul_Decimal256(d) ==
    /\ status = "ok" /\ ty = "int"
    /\ op' = "int_mul_dec256" /\ left' = x /\ right' = [value |-> d, is_positive |-> TRUE]
    /\ LET res == SignedInt_mul_Decimal256(x, d)
       IN  IF res.value > UINT_MAX
           THEN status' = "panic" /\ x' = x
           ELSE status' = "ok" /\ x' = res
    /\ s' = NoStr
    /\ text' = <<>> /\ cmp' = NoCmp /\ conv' = NoConv
    /\ UNCHANGED ty

\* SignedInt::nan()
Call_SignedInt_nan ==
    /\ status = "ok" /\ ty = "int"
    /\ op' = "nan" /\ left' = NoOperand /\ right' = NoOperand
    /\ x' = SignedInt_nan
    /\ status' = "ok" /\ s' = NoStr
    /\ text' = <<>> /\ cmp' = NoCmp /\ conv' = NoConv
    /\ UNCHANGED ty

Next ==
    \/ \E m \in 0..UINT_MAX : Call_SignedDecimal_from(m)
    \/ Call_SignedDecimal_neg
    \/ \E r \in Values : Call_SignedDecimal_add(r)
    \/ \E r \in Values : Call_SignedDecimal_sub(r)
    \/ \E r \in Values : Call_SignedDecimal_mul(r)
    \/ \E r \in Values : Call_SignedDecimal_div(r)
    \/ \E r \in Values : Call_SignedDecimal_cmp(r)
    \/ Call_SignedDecimal_try_into
    \/ Call_SignedDecimal_to_string
    \/ \E str \in ShortStrings : Call_SignedDecimal_from_str(str)
    \/ \E m \in 0..UINT_MAX : Call_SignedInt_from(m)
    \/ Call_SignedInt_neg
    \/ \E r \in Values : Call_SignedInt_add(r)
    \/ \E r \in Values : Call_SignedInt_sub(r)
    \/ \E r \in Values : Call_SignedInt_mul(r)
    \/ \E r \in Values : Call_SignedInt_div(r)
    \/ \E r \in Values : Call_SignedInt_cmp(r)
    \/ Call_SignedInt_try_into
    \/ Call_SignedInt_to_string
    \/ \E str \in ShortStrings : Call_SignedInt_from_str(str)
    \/ Call_SignedInt_nan
    \/ \E u \in 0..UINT_MAX : Call_Uint256_mul_SignedDecimal(u)
    \/ \E d \in 0..UINT_MAX : Call_SignedDecimal_mul_Decimal256(d)
    \/ \E r \in Values : Call_SignedDecimal_rem(r)
    \/ \E d \in 0..UINT_MAX : Call_SignedInt_mul_Decimal256(d)

Spec == Init /\ [][Next]_vars

\* The arithmetic operators alone, on canonical operands, from canonical zero.
NextCanonical ==
    \/ Call_SignedDecimal_neg
    \/ \E r \in CanonicalValues : Call_SignedDecimal_add(r)
    \/ \E r \in CanonicalValues : Call_SignedDecimal_sub(r)
    \/ \E r \in CanonicalValues : Call_SignedDecimal_mul(r)
    \/ \E r \in CanonicalValues : Call_SignedDecimal_div(r)
    \/ Call_SignedInt_neg
    \/ \E r \in CanonicalValues : Call_SignedInt_add(r)
    \/ \E r \in CanonicalValues : Call_SignedInt_sub(r)
    \/ \E r \in CanonicalValues : Call_SignedInt_mul(r)
    \/ \E r \in CanonicalValues : Call_SignedInt_div(r)

SpecCanonical == Init /\ [][NextCanonical]_vars

\* Parsing and rendering alone, on every string up to MaxLen.
NextStr ==
    \/ \E str \in Strings : Call_SignedDecimal_from_str(str)
    \/ Call_SignedDecimal_to_string
    \/ \E str \in Strings : Call_SignedInt_from_str(str)
    \/ Call_SignedInt_to_string

SpecStr == Init /\ [][NextStr]_vars

-----------------------------------------------------------------------------
(* Properties *)

\* The integer (SignedInt) or the count of atomics (SignedDecimal) a value stands for.
SignedValue(v) == IF v.is_positive THEN v.value ELSE 0 - v.value

\* C1: from canonical zero and canonical operands, every value that neg, add, sub,
\* mul and div of either type produce is canonical: a zero magnitude has
\* is_positive = TRUE.
C1_CanonicalClosed == x.value = 0 => x.is_positive

\* A negative value times zero gave the positive zero.
C1_Witness ==
    /\ op = "mul" /\ status = "ok"
    /\ ~left.is_positive /\ right.value = 0
    /\ x.value = 0 /\ x.is_positive

\* C2: a + b is the signed sum.  Equal flags: that flag, magnitude |a| + |b|.
\* Different flags: magnitude ||a| - |b||, the flag of the operand with the larger
\* magnitude, and the positive zero when the magnitudes are equal.
C2_AddIsSignedSum ==
    (op = "add" /\ status = "ok") =>
        /\ SignedValue(x) = SignedValue(left) + SignedValue(right)
        /\ IF left.is_positive = right.is_positive
           THEN /\ x.is_positive = left.is_positive
                /\ x.value = left.value + right.value
           ELSE /\ left.value > right.value =>
                    x = [value |-> left.value - right.value,
                         is_positive |-> left.is_positive]
                /\ left.value < right.value =>
                    x = [value |-> right.value - left.value,
                         is_positive |-> right.is_positive]
                /\ left.value = right.value =>
                    x = [value |-> 0, is_positive |-> TRUE]

\* A positive value plus a negative one of larger magnitude gave a negative value.
C2_Witness ==
    /\ op = "add" /\ status = "ok"
    /\ left.is_positive /\ ~right.is_positive
    /\ left.value > 0 /\ left.value < right.value
    /\ ~x.is_positive /\ x.value = right.value - left.value

\* C3: for every value a the type can hold, a + (-a) and (-a) + a are the
\* canonical zero: magnitude 0 with is_positive = TRUE.
C3_AddNegIsCanonicalZero ==
    (/\ op = "add" /\ status = "ok"
     /\ IF ty = "dec"
        THEN right = SignedDecimal_neg(left) \/ left = SignedDecimal_neg(right)
        ELSE right = SignedInt_neg(left) \/ left = SignedInt_neg(right))
    => x = [value |-> 0, is_positive |-> TRUE]

\* C4: for all values a, b the type can hold, a - b is exactly a + (-b).
C4_SubIsAddNeg ==
    (op = "sub" /\ status = "ok") =>
        x = IF ty = "dec"
            THEN SignedDecimal_add(left, SignedDecimal_neg(right))
            ELSE SignedInt_add(left, SignedInt_neg(right))

\* C5: negation returns a zero magnitude unchanged (so -0 is the positive zero),
\* gives a non-zero value the same magnitude and the opposite flag, and negating
\* the result gives the operand back.
C5_NegInvolution ==
    op = "neg" =>
        /\ left.value = 0 => x = left
        /\ left = [value |-> 0, is_positive |-> TRUE] => x.is_positive
        /\ left.value # 0 =>
               x = [value |-> left.value, is_positive |-> ~left.is_positive]
        /\ left = IF ty = "dec" THEN SignedDecimal_neg(x) ELSE SignedInt_neg(x)

\* The positive zero was negated and is still the positive zero.
C5_Witness ==
    /\ op = "neg"
    /\ left = [value |-> 0, is_positive |-> TRUE]
    /\ x = [value |-> 0, is_positive |-> TRUE]

\* C6: a * b has the product of the magnitudes (rescaled and truncated for the
\* fixed-point type) and is positive exactly when the flags are equal or that
\* product is zero; so 0 * a and a * 0 are positive for every a.
C6_MulSign ==
    (op = "mul" /\ status = "ok") =>
        /\ x.value = IF ty = "dec"
                     THEN (left.value * right.value) \div DECIMAL_FRACTIONAL
                     ELSE left.value * right.value
        /\ x.is_positive <=> (left.is_positive = right.is_positive \/ x.value = 0)
        /\ (left.value = 0 \/ right.value = 0) => (x.value = 0 /\ x.is_positive)

\* Zero times a negative value gave the positive zero.
C6_Witness ==
    /\ op = "mul" /\ status = "ok"
    /\ left = [value |-> 0, is_positive |-> TRUE]
    /\ right.value > 0 /\ ~right.is_positive
    /\ x = [value |-> 0, is_positive |-> TRUE]

\* C7: a / b with a zero divisor (either flag) does not fail and is the positive
\* zero; with a non-zero divisor it has the truncated quotient of the magnitudes
\* and is positive exactly when the flags are equal or that quotient is zero.
C7_DivByZeroIsZero ==
    op = "div" =>
        /\ right.value = 0 =>
               (status = "ok" /\ x = [value |-> 0, is_positive |-> TRUE])
        /\ (right.value # 0 /\ status = "ok") =>
               /\ x.value = IF ty = "dec"
                            THEN (left.value * DECIMAL_FRACTIONAL) \div right.value
                            ELSE left.value \div right.value
               /\ x.is_positive <=>
                      (left.is_positive = right.is_positive \/ x.value = 0)

\* A positive value was divided by a zero magnitude whose flag is negative.
C7_Witness ==
    /\ op = "div" /\ status = "ok"
    /\ left.value > 0 /\ left.is_positive
    /\ right = [value |-> 0, is_positive |-> FALSE]
    /\ x = [value |-> 0, is_positive |-> TRUE]

\* C8: for all values a, b the type can hold, exactly one of a < b, a == b,
\* a > b holds.
C8_ExactlyOneOrdering ==
    op = "cmp" =>
        /\ cmp.ord = "Less" \/ cmp.eq \/ cmp.ord = "Greater"
        /\ ~(cmp.eq /\ cmp.ord = "Less")
        /\ ~(cmp.eq /\ cmp.ord = "Greater")

\* C9: try_into succeeds, with the magnitude unchanged, exactly when
\* is_positive holds or the magnitude is zero; otherwise it is the Generic error.
C9_TryIntoUnsigned ==
    op = "try_into" =>
        /\ conv.ok <=> (left.is_positive \/ left.value = 0)
        /\ conv.ok => conv.value = left.value

\* A zero magnitude whose flag is negative was narrowed, and gave Ok(0).
C9_Witness ==
    /\ op = "try_into"
    /\ left = [value |-> 0, is_positive |-> FALSE]
    /\ conv = [ok |-> TRUE, value |-> 0]

\* A non-empty run of decimal digits.
AllDigits(q) == q # <<>> /\ \A i \in 1..Len(q) : IsDigit(q[i])

\* Position of the single dot of a numeral "digits.digits", 0 when there is none.
DotOf(q) ==
    IF \E k \in 1..Len(q) :
           /\ q[k] = "."
           /\ AllDigits(SubSeq(q, 1, k - 1))
           /\ AllDigits(SubSeq(q, k + 1, Len(q)))
    THEN CHOOSE k \in 1..Len(q) : q[k] = "."
    ELSE 0

\* The string without its leading '-', if it has one.
Unsigned(str) == IF str # <<>> /\ str[1] = "-" THEN Tail(str) ELSE str

\* An optional '-', then digits, or digits '.' digits.
IsNumeral(str) == AllDigits(Unsigned(str)) \/ DotOf(Unsigned(str)) # 0

\* The numeral's value is NumeralNum / NumeralDen.
NumeralDen(str) ==
    LET q == Unsigned(str)
    IN  IF DotOf(q) = 0 THEN 1 ELSE Pow10(Len(q) - DotOf(q))

NumeralNum(str) ==
    LET q == Unsigned(str)
        k == DotOf(q)
        m == IF k = 0 THEN DigitsValue(q)
             ELSE DigitsValue(SubSeq(q, 1, k - 1)) * Pow10(Len(q) - k)
                  + DigitsValue(SubSeq(q, k + 1, Len(q)))
    IN  IF str[1] = "-" THEN 0 - m ELSE m

\* Two numerals that denote the same number.
SameValue(p, q) ==
    /\ IsNumeral(p) /\ IsNumeral(q)
    /\ NumeralNum(p) * NumeralDen(q) = NumeralNum(q) * NumeralDen(p)

\* C10: for every string s that from_str accepts, to_string(from_str(s)) denotes
\* the same number as s, and a zero written with a leading '-' is rendered as
\* the canonical zero: "0.0" for SignedDecimal, "0" for SignedInt.
C10_RoundTrip ==
    (op = "to_string" /\ s # NoStr) =>
        /\ SameValue(text, s)
        /\ (x.value = 0 /\ s[1] = "-") =>
               text = IF ty = "dec" THEN <<"0", ".", "0">> ELSE <<"0">>

\* C11: from_str of the empty string does not panic: it returns a parse error,
\* like any other malformed numeral.
C11_EmptyStringNoPanic ==
    (op = "from_str" /\ s = <<>>) => status = "err"

\* C12: Uint256 * SignedDecimal and SignedInt * Decimal256 return a SignedInt with
\* the product of the magnitudes and the flag of the signed operand, except that a
\* zero product is positive; so a canonical signed operand never gives the NaN
\* sentinel (magnitude 0, is_positive = FALSE).
C12_CrossMulSign ==
    (op \in {"uint_mul_dec", "int_mul_dec256"} /\ status = "ok") =>
        LET signed == IF op = "uint_mul_dec" THEN right ELSE left
        IN  /\ x.value = (left.value * right.value) \div DECIMAL_FRACTIONAL
            /\ x.is_positive <=> (signed.is_positive \/ x.value = 0)
            /\ (signed.value = 0 => signed.is_positive) => ~SignedInt_is_nan(x)

\* C13: SignedDecimal * Decimal256 on a canonical SignedDecimal a has magnitude
\* |a| * d and, when that magnitude is zero, is_positive = TRUE.
C13_MulDecimal256Canonical ==
    (/\ op = "dec_mul_dec256" /\ status = "ok"
     /\ left.value = 0 => left.is_positive)
    => /\ x.value = (left.value * right.value) \div DECIMAL_FRACTIONAL
       /\ x.value = 0 => x.is_positive

\* C14: for every a and every b of non-zero magnitude, the SignedDecimal a % b is
\* positive and its atomics are atomics(a) mod atomics(b), whatever the flags.
C14_RemIgnoresSigns ==
    (op = "rem" /\ right.value # 0) =>
        /\ status = "ok"
        /\ x.is_positive
        /\ x.value = left.value % right.value

\* A negative value modulo a negative value gave a positive, non-zero remainder.
C14_Witness ==
    /\ op = "rem" /\ status = "ok"
    /\ ~left.is_positive /\ ~right.is_positive
    /\ x.is_positive /\ x.value > 0
    /\ x.value = left.value % right.value

====
